---- MODULE Spec2Model ----
(***************************************************************************)
(* Model of infoHiroki/aimemo: the MemoGenerator core of src/main.py       *)
(* (configuration load/save, setters, provider dispatch, file pipeline).   *)
(*                                                                         *)
(* Conventions                                                             *)
(*  - a Python str is a sequence of tokens (a token is a character or an   *)
(*    indivisible chunk of characters); "" is <<>>;                        *)
(*  - a JSON / Python value is a tagged record [ty, v]:                    *)
(*      "str" (v a token sequence), "int" (v an integer),                  *)
(*      "float" (v the number in tenths: 0.3 is 3, 1.0 is 10),             *)
(*      "nan" (float('nan')), "dict" (v a function from keys to values),   *)
(*      "list" (v a sequence of values), "none" (None);                    *)
(*  - a file's content is a sequence of tokens; BadByte is a byte that is  *)
(*    not valid UTF-8.                                                     *)
(***************************************************************************)
EXTENDS Integers, Sequences, FiniteSets, TLC

\* ------------------------------------------------------------------ values
None == [ty |-> "none", v |-> <<>>]
Str(s) == [ty |-> "str", v |-> s]
PyInt(n) == [ty |-> "int", v |-> n]
PyFloat(t) == [ty |-> "float", v |-> t]
NaN == [ty |-> "nan", v |-> 0]
Dict(f) == [ty |-> "dict", v |-> f]
List(s) == [ty |-> "list", v |-> s]
EmptyDict == Dict([k \in {} |-> None])

Has(d, k) == k \in DOMAIN d.v
\* d[k] = val on a dict
Put(d, k, val) == Dict([j \in (DOMAIN d.v) \cup {k} |-> IF j = k THEN val ELSE d.v[j]])

\* Python truthiness of the values the program tests with `if x` / `not x`
Truthy(x) ==
    CASE x.ty = "none" -> FALSE
      [] x.ty = "str" -> Len(x.v) > 0
      [] x.ty = "list" -> Len(x.v) > 0
      [] x.ty = "dict" -> DOMAIN x.v # {}
      [] x.ty = "int" -> x.v # 0
      [] x.ty = "float" -> x.v # 0
      [] OTHER -> TRUE

\* ------------------------------------------------------- number comparison
\* the numeric value in tenths
Tenths(x) == IF x.ty = "int" THEN 10 * x.v ELSE x.v
\* Python's a < b on int/float operands: every comparison with nan is False
PyLt(a, b) == a.ty # "nan" /\ b.ty # "nan" /\ Tenths(a) < Tenths(b)
\* Python's min(a, b) / max(a, b): the first operand unless the second is
\* strictly smaller / larger
PyMin(a, b) == IF PyLt(b, a) THEN b ELSE a
PyMax(a, b) == IF PyLt(a, b) THEN b ELSE a

\* ------------------------------------------------------------ json.dump
DigitChars == <<"0", "1", "2", "3", "4", "5", "6", "7", "8", "9">>
IsDigit(c) == \E d \in 1..10 : DigitChars[d] = c
DigitOf(c) == (CHOOSE d \in 1..10 : DigitChars[d] = c) - 1

RECURSIVE Digits(_)
Digits(n) == IF n < 10 THEN <<DigitChars[n + 1]>>
             ELSE Digits(n \div 10) \o <<DigitChars[(n % 10) + 1]>>

\* int.__repr__
FormatInt(n) == IF n < 0 THEN <<"-">> \o Digits(0 - n) ELSE Digits(n)
\* float.__repr__ of a number with one fractional digit
FormatFloat(t) ==
    LET a == IF t < 0 THEN 0 - t ELSE t
    IN (IF t < 0 THEN <<"-">> ELSE <<>>) \o Digits(a \div 10) \o <<".">> \o Digits(a % 10)

EscapeNothing(s) == s

\* the encoder's string escaping (ensure_ascii=False): only the quote and
\* the backslash of the modelled alphabet are escaped
RECURSIVE Escape(_)
Escape(s) ==
    IF s = <<>> THEN <<>>
    ELSE (IF Head(s) \in {"\"", "\\"} THEN <<"\\", Head(s)>> ELSE <<Head(s)>>)
         \o Escape(Tail(s))

EncodeString(s) == <<"\"">> \o Escape(s) \o <<"\"">>

\* the order in which a dict's keys are written (any fixed order)
RECURSIVE KeyOrder(_)
KeyOrder(S) == IF S = {} THEN <<>>
               ELSE LET k == CHOOSE k \in S : TRUE IN <<k>> \o KeyOrder(S \ {k})

\* the whitespace json.dump(indent=2) writes between items
Ws == "\n "

RECURSIVE Dump(_), DumpMembers(_, _), DumpElements(_)
Dump(x) ==
    CASE x.ty = "str" -> EncodeString(x.v)
      [] x.ty = "int" -> FormatInt(x.v)
      [] x.ty = "float" -> FormatFloat(x.v)
      [] x.ty = "nan" -> <<"NaN">>
      [] x.ty = "none" -> <<"null">>
      [] x.ty = "list" ->
            IF x.v = <<>> THEN <<"[", "]">>
            ELSE <<"[", Ws>> \o DumpElements(x.v) \o <<Ws, "]">>
      [] x.ty = "dict" ->
            IF DOMAIN x.v = {} THEN <<"{", "}">>
            ELSE <<"{", Ws>> \o DumpMembers(x.v, KeyOrder(DOMAIN x.v)) \o <<Ws, "}">>
DumpMembers(f, keys) ==
    IF keys = <<>> THEN <<>>
    ELSE EncodeString(<<Head(keys)>>) \o <<":", " ">> \o Dump(f[Head(keys)])
         \o (IF Tail(keys) = <<>> THEN <<>> ELSE <<",", Ws>> \o DumpMembers(f, Tail(keys)))
DumpElements(s) ==
    IF s = <<>> THEN <<>>
    ELSE Dump(Head(s))
         \o (IF Tail(s) = <<>> THEN <<>> ELSE <<",", Ws>> \o DumpElements(Tail(s)))

\* ------------------------------------------------------------ json.load
BadByte == "\\xff"
\* the text decoder of open(..., encoding="utf-8")
Decodable(bytes) == \A i \in 1..Len(bytes) : bytes[i] # BadByte

IsWs(c) == c \in {Ws, " "}
RECURSIVE SkipWs(_, _)
SkipWs(t, i) == IF i <= Len(t) /\ IsWs(t[i]) THEN SkipWs(t, i + 1) ELSE i

Fail(i) == [ok |-> FALSE, val |-> None, pos |-> i]
Ok(val, i) == [ok |-> TRUE, val |-> val, pos |-> i]

\* the body of a string literal from position i (after the opening quote)
RECURSIVE ScanString(_, _, _)
ScanString(t, i, acc) ==
    IF i > Len(t) THEN Fail(i)
    ELSE IF t[i] = "\"" THEN Ok(Str(acc), i + 1)
    ELSE IF t[i] = "\\" THEN
        IF i + 1 <= Len(t) /\ t[i + 1] \in {"\"", "\\"}
        THEN ScanString(t, i + 2, Append(acc, t[i + 1]))
        ELSE Fail(i)
    ELSE ScanString(t, i + 1, Append(acc, t[i]))

RECURSIVE ScanDigits(_, _, _)
ScanDigits(t, i, acc) ==
    IF i <= Len(t) /\ IsDigit(t[i]) THEN ScanDigits(t, i + 1, 10 * acc + DigitOf(t[i]))
    ELSE [n |-> acc, pos |-> i]

\* a number literal: -? digits ( . digit )?
ScanNumber(t, i) ==
    LET neg == i <= Len(t) /\ t[i] = "-"
        j == IF neg THEN i + 1 ELSE i
        ip == ScanDigits(t, j, 0)
        sgn == IF neg THEN -1 ELSE 1
    IN IF ip.pos = j THEN Fail(i)
       ELSE IF ip.pos <= Len(t) /\ t[ip.pos] = "."
            THEN IF ip.pos + 1 <= Len(t) /\ IsDigit(t[ip.pos + 1])
                 THEN Ok(PyFloat(sgn * (10 * ip.n + DigitOf(t[ip.pos + 1]))), ip.pos + 2)
                 ELSE Fail(i)
            ELSE Ok(PyInt(sgn * ip.n), ip.pos)

RECURSIVE ParseValue(_, _), ParseMembers(_, _, _), ParseElements(_, _, _)
ParseValue(t, i0) ==
    LET i == SkipWs(t, i0)
    IN IF i > Len(t) THEN Fail(i)
       ELSE IF t[i] = "\"" THEN ScanString(t, i + 1, <<>>)
       ELSE IF t[i] = "null" THEN Ok(None, i + 1)
       ELSE IF t[i] = "NaN" THEN Ok(NaN, i + 1)
       ELSE IF t[i] = "-" \/ IsDigit(t[i]) THEN ScanNumber(t, i)
       ELSE IF t[i] = "{" THEN
            LET j == SkipWs(t, i + 1)
            IN IF j <= Len(t) /\ t[j] = "}" THEN Ok(EmptyDict, j + 1)
               ELSE ParseMembers(t, j, EmptyDict)
       ELSE IF t[i] = "[" THEN
            LET j == SkipWs(t, i + 1)
            IN IF j <= Len(t) /\ t[j] = "]" THEN Ok(List(<<>>), j + 1)
               ELSE ParseElements(t, j, <<>>)
       ELSE Fail(i)
\* "key": value (, "key": value)* }
ParseMembers(t, i0, d) ==
    LET i == SkipWs(t, i0)
    IN IF i > Len(t) \/ t[i] # "\"" THEN Fail(i)
       ELSE LET k == ScanString(t, i + 1, <<>>)
            IN IF ~k.ok \/ Len(k.val.v) # 1 THEN Fail(i)
               ELSE LET c == SkipWs(t, k.pos)
                    IN IF c > Len(t) \/ t[c] # ":" THEN Fail(c)
                       ELSE LET val == ParseValue(t, c + 1)
                            IN IF ~val.ok THEN Fail(c)
                               ELSE LET e == SkipWs(t, val.pos)
                                        d2 == Put(d, k.val.v[1], val.val)
                                    IN IF e > Len(t) THEN Fail(e)
                                       ELSE IF t[e] = "}" THEN Ok(d2, e + 1)
                                       ELSE IF t[e] = "," THEN ParseMembers(t, e + 1, d2)
                                       ELSE Fail(e)
\* value (, value)* ]
ParseElements(t, i0, acc) ==
    LET val == ParseValue(t, i0)
    IN IF ~val.ok THEN Fail(i0)
       ELSE LET e == SkipWs(t, val.pos)
            IN IF e > Len(t) THEN Fail(e)
               ELSE IF t[e] = "]" THEN Ok(List(Append(acc, val.val)), e + 1)
               ELSE IF t[e] = "," THEN ParseElements(t, e + 1, Append(acc, val.val))
               ELSE Fail(e)

\* json.loads: one value, then only whitespace
JsonLoads(t) ==
    LET r == ParseValue(t, 1)
    IN IF r.ok /\ SkipWs(t, r.pos) > Len(t) THEN r ELSE Fail(1)

\* ------------------------------------------------- dict access in Python
NoExc == ""
Res(exc, val) == [exc |-> exc, val |-> val]

\* d[k]
Sub(d, k) ==
    IF d.ty = "dict"
    THEN IF Has(d, k) THEN Res(NoExc, d.v[k]) ELSE Res("KeyError", None)
    ELSE Res("TypeError", None)

\* d[a][b]
Sub2(d, a, b) ==
    LET s == Sub(d, a) IN IF s.exc # NoExc THEN s ELSE Sub(s.val, b)

\* d.get(k, dflt)
Get(d, k, dflt) ==
    IF d.ty = "dict"
    THEN Res(NoExc, IF Has(d, k) THEN d.v[k] ELSE dflt)
    ELSE Res("AttributeError", None)

\* d[a][b] = val; val is the new d on success
Assign2(d, a, b, val) ==
    LET s == Sub(d, a)
    IN IF s.exc # NoExc THEN Res(s.exc, d)
       ELSE IF s.val.ty # "dict" THEN Res("TypeError", d)
       ELSE Res(NoExc, Put(d, a, Put(s.val, b, val)))

\* x in c / x not in c raises on a container that is not iterable
InRaises(c) == c.ty \notin {"dict", "list", "str"}

\* ------------------------------------------------------- _load_config
Placeholder == "{transcription}"
DefaultTemplate == <<"minutes:", Placeholder>>
DEFAULT_TEMPERATURE == 3
DEFAULT_MAX_TOKENS == 1500

\* the built-in configuration returned by the except branch
DefaultConfig ==
    Dict([k \in {"llm", "templates"} |->
        IF k = "llm"
        THEN Dict([j \in {"provider", "api_key", "model", "temperature", "max_tokens"} |->
                CASE j = "provider" -> Str(<<"openai">>)
                  [] j = "api_key" -> Str(<<>>)
                  [] j = "model" -> Str(<<"gpt-4o-mini">>)
                  [] j = "temperature" -> PyFloat(DEFAULT_TEMPERATURE)
                  [] j = "max_tokens" -> PyInt(DEFAULT_MAX_TOKENS)])
        ELSE Dict([j \in {"default"} |-> Str(DefaultTemplate)])])

\* the exception raised inside the try block of _load_config, if any
LoadExc(file) ==
    IF ~file.exists THEN "FileNotFoundError"
    ELSE IF ~Decodable(file.bytes) THEN "UnicodeDecodeError"
    ELSE IF ~JsonLoads(file.bytes).ok THEN "JSONDecodeError"
    ELSE NoExc

\* except (FileNotFoundError, json.JSONDecodeError)
LoadCaught(exc) == exc \in {"FileNotFoundError", "JSONDecodeError"}

\* _load_config: val is the configuration returned, exc the exception that
\* escapes
LoadConfig(file) ==
    LET e == LoadExc(file)
    IN IF e = NoExc THEN Res(NoExc, JsonLoads(file.bytes).val)
       ELSE IF LoadCaught(e) THEN Res(NoExc, DefaultConfig)
       ELSE Res(e, None)

\* ------------------------------------------------------------- setters
\* set_provider
SetProvider(cfg, provider) ==
    LET cat == Get(cfg, "providers", EmptyDict)
    IN IF cat.exc # NoExc THEN Res(cat.exc, cfg)
       ELSE IF InRaises(cat.val) THEN Res("TypeError", cfg)
       ELSE Assign2(cfg, "llm", "provider", provider)

\* set_model
SetModel(cfg, model) ==
    LET p == Sub2(cfg, "llm", "provider")
        cat == Get(cfg, "providers", EmptyDict)
    IN IF p.exc # NoExc THEN Res(p.exc, cfg)
       ELSE IF cat.exc # NoExc THEN Res(cat.exc, cfg)
       ELSE IF cat.val.ty # "dict" THEN Res("AttributeError", cfg)
       ELSE LET models == IF p.val.ty = "str" /\ Len(p.val.v) = 1 /\ Has(cat.val, p.val.v[1])
                          THEN cat.val.v[p.val.v[1]] ELSE List(<<>>)
            IN IF Truthy(models) /\ InRaises(models) THEN Res("TypeError", cfg)
               ELSE Assign2(cfg, "llm", "model", model)

\* set_api_key
SetApiKey(cfg, key) == Assign2(cfg, "llm", "api_key", key)

\* set_google_api_key
SetGoogleApiKey(cfg, key) == Assign2(cfg, "llm", "google_api_key", key)

TEMP_LOW == 0
TEMP_HIGH == 10
ClampTemperatureSwapped(x) == PyMin(PyFloat(TEMP_LOW), PyMax(PyFloat(TEMP_HIGH), x))

\* max(0.0, min(1.0, temperature))
ClampTemperature(x) == PyMax(PyFloat(TEMP_LOW), PyMin(PyFloat(TEMP_HIGH), x))

\* set_temperature
SetTemperature(cfg, x) == Assign2(cfg, "llm", "temperature", ClampTemperature(x))

TOKENS_LOW == 1
ClampMaxTokensFromZero(n) == PyMax(PyInt(TOKENS_LOW - 1), n)

\* max(1, max_tokens)
ClampMaxTokens(n) == PyMax(PyInt(TOKENS_LOW), n)

\* set_max_tokens
SetMaxTokens(cfg, n) == Assign2(cfg, "llm", "max_tokens", ClampMaxTokens(n))

\* set_template
SetTemplate(cfg, t) == Assign2(cfg, "templates", "default", t)

\* ------------------------------------------------------ provider adapters
\* template.replace("{transcription}", transcription)
RECURSIVE Render(_, _)
Render(template, transcription) ==
    IF template = <<>> THEN <<>>
    ELSE (IF Head(template) = Placeholder THEN transcription ELSE <<Head(template)>>)
         \o Render(Tail(template), transcription)

\* what requests.post does: raises, or returns a status and a JSON body.
\* The body is abstracted to the fields the adapters read: path says that
\* the containers on the way to the text exist (choices[0].message,
\* content[0], candidates[0].content.parts), parts lists the text-bearing
\* items, each with or without its text field.
NoResponse == [kind |-> "none", status |-> 0, path |-> FALSE, parts |-> <<>>]
Part(has, text) == [has |-> has, text |-> text]
Responses ==
    { [kind |-> "exception", status |-> 0, path |-> FALSE, parts |-> <<>>],
      [kind |-> "http", status |-> 401, path |-> FALSE, parts |-> <<>>],
      [kind |-> "http", status |-> 200, path |-> TRUE,
       parts |-> <<Part(TRUE, <<"Meeting summary.">>)>>],
      [kind |-> "http", status |-> 200, path |-> TRUE, parts |-> <<Part(FALSE, <<>>)>>],
      [kind |-> "http", status |-> 200, path |-> FALSE, parts |-> <<>>] }

HTTP_OK == 200

\* an adapter's or generate_memo's outcome: the exception that escapes or
\* the value returned, the number of HTTP requests issued, the credential
\* and the prompt that were sent
Raise(e) == [exc |-> e, ret |-> None, reqs |-> 0, sent |-> None, prompt |-> <<>>]
NoRequest == [exc |-> NoExc, ret |-> None, reqs |-> 0, sent |-> None, prompt |-> <<>>]
PostedWithRetry(ret, cred, prompt) ==
    [exc |-> NoExc, ret |-> ret, reqs |-> IF ret.ty = "none" THEN 2 ELSE 1,
     sent |-> cred, prompt |-> prompt]

Posted(ret, cred, prompt) ==
    [exc |-> NoExc, ret |-> ret, reqs |-> 1, sent |-> cred, prompt |-> prompt]

\* building the request body reads llm.model, llm.temperature and
\* llm.max_tokens inside the try block
PayloadRaises(cfg) ==
    \E k \in {"model", "temperature", "max_tokens"} : Sub2(cfg, "llm", k).exc # NoExc

\* result["choices"][0]["message"]["content"] and result["content"][0]["text"]
FirstText(resp) ==
    IF resp.path /\ Len(resp.parts) > 0 /\ resp.parts[1].has
    THEN Res(NoExc, Str(resp.parts[1].text))
    ELSE Res("KeyError", None)

RECURSIVE JoinTexts(_)
JoinTexts(parts) ==
    IF parts = <<>> THEN <<>>
    ELSE (IF Head(parts).has THEN Head(parts).text ELSE <<>>) \o JoinTexts(Tail(parts))

\* the candidates / content / parts walk of _call_google_api
GoogleText(resp) == IF resp.path THEN Str(JoinTexts(resp.parts)) ELSE None

\* the response handling shared by the OpenAI and the Anthropic adapter
SingleTextResult(resp) ==
    IF resp.kind = "exception" THEN None
    ELSE IF resp.status = HTTP_OK
         THEN LET t == FirstText(resp) IN IF t.exc = NoExc THEN t.val ELSE None
         ELSE None

\* _call_openai_api
CallOpenAI(cfg, prompt, resp) ==
    LET key == Sub2(cfg, "llm", "api_key")
    IN IF key.exc # NoExc THEN Raise(key.exc)
       ELSE IF ~Truthy(key.val) THEN NoRequest
       ELSE IF PayloadRaises(cfg) THEN NoRequest
       ELSE Posted(SingleTextResult(resp), key.val, prompt)

\* _call_anthropic_api
CallAnthropic(cfg, prompt, resp) ==
    LET key == Sub2(cfg, "llm", "api_key")
    IN IF key.exc # NoExc THEN Raise(key.exc)
       ELSE IF ~Truthy(key.val) THEN NoRequest
       ELSE IF PayloadRaises(cfg) THEN NoRequest
       ELSE Posted(SingleTextResult(resp), key.val, prompt)

\* _call_google_api
CallGoogle(cfg, prompt, resp) ==
    LET llm == Sub(cfg, "llm")
        key == Get(llm.val, "google_api_key", Str(<<>>))
        model == Sub2(cfg, "llm", "model")
    IN IF llm.exc # NoExc THEN Raise(llm.exc)
       ELSE IF key.exc # NoExc THEN Raise(key.exc)
       ELSE IF ~Truthy(key.val) THEN NoRequest
       ELSE IF model.exc # NoExc \/ model.val.ty # "str" THEN NoRequest
       ELSE IF PayloadRaises(cfg) THEN NoRequest
       ELSE Posted(IF resp.kind = "exception" THEN None
                   ELSE IF resp.status = HTTP_OK THEN GoogleText(resp)
                   ELSE None,
                   key.val, prompt)

IsName(x, name) == x.ty = "str" /\ x.v = <<name>>

\* generate_memo
GenerateMemo(cfg, transcription, resp) ==
    LET template == Sub2(cfg, "templates", "default")
        provider == Sub2(cfg, "llm", "provider")
        prompt == Render(template.val.v, transcription)
    IN IF template.exc # NoExc THEN Raise(template.exc)
       ELSE IF template.val.ty # "str" THEN Raise("AttributeError")
       ELSE IF provider.exc # NoExc THEN Raise(provider.exc)
       ELSE IF IsName(provider.val, "openai") THEN CallOpenAI(cfg, prompt, resp)
       ELSE IF IsName(provider.val, "anthropic") THEN CallAnthropic(cfg, prompt, resp)
       ELSE IF IsName(provider.val, "google") THEN CallGoogle(cfg, prompt, resp)
       ELSE NoRequest

\* ------------------------------------------------------------ file pipeline
\* a path is a sequence of tokens; "/" separates components and "." is the
\* extension dot; a file system maps the paths that exist to their text
NoPath == <<>>

RECURSIVE LastIndex(_, _, _)
\* the last position <= i of token c in p, 0 when there is none (str.rfind)
LastIndex(p, c, i) ==
    IF i = 0 THEN 0 ELSE IF p[i] = c THEN i ELSE LastIndex(p, c, i - 1)

RECURSIVE HasNonDot(_, _, _)
\* some token in p[from .. to - 1] is not a dot
HasNonDot(p, from, to) ==
    IF from >= to THEN FALSE
    ELSE IF p[from] # "." THEN TRUE ELSE HasNonDot(p, from + 1, to)

\* os.path.splitext(p)[0]
SplitExtRoot(p) ==
    LET sep == LastIndex(p, "/", Len(p))
        dot == LastIndex(p, ".", Len(p))
    IN IF dot > sep /\ HasNonDot(p, sep + 1, dot) THEN SubSeq(p, 1, dot - 1) ELSE p

MemoSuffix == <<"_memo", ".", "txt">>

\* the output path generate_memo_from_file writes to
OutputPath(input, output) ==
    IF output = NoPath THEN SplitExtRoot(input) \o MemoSuffix ELSE output

\* the outcomes of `with open(path, "w") as f: f.write(text)`
IoOutcomes == {"ok", "open_fails", "write_fails"}

\* the file system after the write: open(.., "w") truncates, a write that
\* fails leaves the truncated file
WriteFile(files, path, text, io) ==
    IF io = "open_fails" THEN files
    ELSE [q \in (DOMAIN files) \cup {path} |->
            IF q = path THEN (IF io = "ok" THEN text ELSE <<>>) ELSE files[q]]

WritesMemoUnchecked(g) == g.exc = NoExc

\* `if memo:` - whether the generated memo is written
WritesMemo(g) == g.exc = NoExc /\ Truthy(g.ret)

ReturnAfterWriteBestEffort(memo, io) == memo

\* the value generate_memo_from_file returns after its write
ReturnAfterWrite(memo, io) == IF io = "ok" THEN memo ELSE None

\* generate_memo_from_file: the value returned, the file system afterwards,
\* the outcome of the generate_memo call it made (g) and of its write
GenerateMemoFromFile(cfg, files, input, output, resp, io) ==
    LET out == OutputPath(input, output)
        g == GenerateMemo(cfg, files[input], resp)
    IN IF input \notin DOMAIN files
       THEN [ret |-> None, files |-> files, out |-> out, called |-> FALSE,
             g |-> NoRequest, io |-> "none"]
       ELSE IF WritesMemo(g)
       THEN [ret |-> ReturnAfterWrite(g.ret, io), files |-> WriteFile(files, out, g.ret.v, io),
             out |-> out, called |-> TRUE, g |-> g, io |-> io]
       ELSE [ret |-> None, files |-> files, out |-> out, called |-> TRUE,
             g |-> g, io |-> "none"]

\* ------------------------------------------------------------ save_config
\* the configuration file: whether it exists, and its bytes
File(bytes) == [exists |-> TRUE, bytes |-> bytes]
MissingFile == [exists |-> FALSE, bytes |-> <<>>]

\* the file after `with open(config_path, "w") as f: json.dump(...)`
SaveFile(file, cfg, io) ==
    IF io = "open_fails" THEN file
    ELSE IF io = "write_fails" THEN File(<<>>)
    ELSE File(Dump(cfg))

\* what save_config returns to its caller: every exception is caught and
\* logged, and the method has no return statement
SaveConfigReturn(io) == None

\* ------------------------------------------------------------------ state
\* the number of calls made on the generator after its construction
MaxCalls == 2
\* the number of handlers the user triggers in the window
MaxGuiCalls == 3

VARIABLES
    configFile,   \* the file at config_path
    fs,           \* the transcript and memo files: path -> text
    constructed,  \* MemoGenerator.__init__ returned
    config,       \* self.config
    call,         \* the last call made on the generator and its outcome
    ncalls,       \* calls made so far
    keyOwner,     \* history: the provider that was active when llm.api_key was configured
    guiConfig,    \* MemoGeneratorGUI.config
    inputFiles,   \* MemoGeneratorGUI.input_files
    button,       \* the state of generate_button
    worker,       \* the thread running _generate_all_in_thread
    afterQueue,   \* the callbacks root.after has queued for the main loop
    guiCall,      \* the last run of generate_memos, save_settings or _show_final_results
    guiCalls      \* handlers triggered by the user so far

coreVars == <<configFile, fs, constructed, config, call, ncalls, keyOwner>>
guiVars == <<guiConfig, inputFiles, button, worker, afterQueue, guiCall, guiCalls>>
vars == <<coreVars, guiVars>>

LlmDoc(provider, keys, temperature, maxTokens) ==
    Dict([j \in {"provider", "model", "temperature", "max_tokens"} \cup DOMAIN keys |->
        CASE j = "provider" -> Str(<<provider>>)
          [] j = "model" -> Str(<<"gemini-", "pro">>)
          [] j = "temperature" -> PyFloat(temperature)
          [] j = "max_tokens" -> PyInt(maxTokens)
          [] OTHER -> Str(keys[j])])

ConfigDoc(llm, withCatalog) ==
    Dict([k \in {"llm", "templates"} \cup (IF withCatalog THEN {"providers"} ELSE {}) |->
        CASE k = "llm" -> llm
          [] k = "templates" -> Dict([j \in {"default"} |-> Str(DefaultTemplate)])
          [] OTHER -> Dict([j \in {"openai", "google"} |->
                        List(<<Str(<<IF j = "openai" THEN "gpt-4o-mini" ELSE "gemini-pro">>)>>)])])

\* the configuration gui.py writes: one credential per provider, no api_key
GuiSavedConfig ==
    ConfigDoc(LlmDoc("openai",
                     [j \in {"openai_api_key", "anthropic_api_key", "google_api_key"} |->
                        IF j = "openai_api_key" THEN <<"sk">> ELSE <<>>],
                     3, 1500), TRUE)

\* a configuration file edited by hand
HandEditedConfig ==
    ConfigDoc(LlmDoc("anthropic", [j \in {"api_key"} |-> <<"k", "\"">>], 50, 0), FALSE)

GoogleConfig ==
    ConfigDoc(LlmDoc("google", [j \in {"api_key", "google_api_key"} |->
                                  IF j = "api_key" THEN <<>> ELSE <<"g">>], 4, 500), FALSE)

\* the contents config_path can have when the generator is constructed
InitialConfigFiles ==
    { MissingFile,
      File(<<BadByte>>),
      File(<<"{", Ws, "\"", "llm", "\"", ":">>),
      File(<<"{", "}">>),
      File(Dump(GuiSavedConfig)),
      File(Dump(HandEditedConfig)),
      File(Dump(GoogleConfig)) }

Transcript == <<"Alice: hi", "Bob: hello">>
OldMemo == <<"old memo">>
ExplicitOutput == <<"out", ".", "txt">>
InputPaths == { <<"a", ".", "txt">>, <<"d", ".", "v", "/", ".", "b">>, <<"gone", ".", "txt">> }
ExistingInputs == { <<"a", ".", "txt">>, <<"d", ".", "v", "/", ".", "b">> }
OutputArgs == {NoPath, ExplicitOutput}

\* the file systems a call can start from: the transcripts exist, the
\* memo files either do not exist yet or hold an earlier memo
InitialFileSystems ==
    { [p \in ExistingInputs |-> Transcript],
      [p \in ExistingInputs \cup {ExplicitOutput, <<"a", "_memo", ".", "txt">>} |->
          IF p \in ExistingInputs THEN Transcript ELSE OldMemo] }

ProviderArgs == {Str(<<"openai">>), Str(<<"anthropic">>), Str(<<"google">>), Str(<<"mistral">>)}
ModelArgs == {Str(<<"gpt-4o-mini">>)}
ApiKeyArgs == {Str(<<>>), Str(<<"k", "\\">>)}
GoogleKeyArgs == {Str(<<>>), Str(<<"g">>)}
TemperatureArgs == {PyFloat(-50), PyFloat(4), PyFloat(17), PyInt(1), PyInt(0), NaN}
MaxTokensArgs == {PyInt(-10), PyInt(0), PyInt(1), PyInt(500)}
TemplateArgs == {Str(<<"Summarize:", Placeholder, Placeholder>>)}

BaseCall(op) ==
    [op |-> op, arg |-> None, exc |-> NoExc, ret |-> None, reqs |-> 0, sent |-> None,
     prompt |-> <<>>, resp |-> NoResponse, input |-> NoPath, outarg |-> NoPath, output |-> NoPath,
     io |-> "none", gen |-> "none", genret |-> None]

\* MemoGenerator.__init__
Construct(file) ==
    LET r == LoadConfig(file)
    IN [constructed |-> r.exc = NoExc, config |-> r.val,
        call |-> [BaseCall("__init__") EXCEPT !.exc = r.exc]]

NoProvider == ""
\* the name of the active provider, NoProvider when llm.provider is not a name
ProviderName(cfg) ==
    LET p == Sub2(cfg, "llm", "provider")
    IN IF p.exc = NoExc /\ p.val.ty = "str" /\ Len(p.val.v) = 1 THEN p.val.v[1] ELSE NoProvider

\* the provider a loaded llm.api_key was configured for: the provider the
\* file selects
OwnerAtLoad(cfg) ==
    IF Sub2(cfg, "llm", "api_key").exc = NoExc THEN ProviderName(cfg) ELSE NoProvider

\* the GUI is not running
NoWorker == [running |-> FALSE, index |-> 0, results |-> <<>>, outputDir |-> <<>>,
             snapshot |-> <<>>]
NoGuiCall == [op |-> "none", exc |-> NoExc, outcome |-> "none"]
GuiAbsent ==
    /\ guiConfig = None
    /\ inputFiles = <<>>
    /\ button = "normal"
    /\ worker = NoWorker
    /\ afterQueue = <<>>
    /\ guiCall = NoGuiCall
    /\ guiCalls = 0

Init ==
    /\ configFile \in InitialConfigFiles
    /\ fs \in InitialFileSystems
    /\ \E c \in {Construct(configFile)} :
          /\ constructed = c.constructed
          /\ config = c.config
          /\ call = c.call
          /\ keyOwner = OwnerAtLoad(c.config)
    /\ ncalls = 0
    /\ GuiAbsent

CanCall == constructed /\ ncalls < MaxCalls

\* a setter call: r is the setter's outcome
Setter(op, arg, r) ==
    /\ CanCall
    /\ config' = r.val
    /\ call' = [BaseCall(op) EXCEPT !.arg = arg, !.exc = r.exc]
    /\ ncalls' = ncalls + 1
    /\ keyOwner' = IF op = "set_api_key" /\ r.exc = NoExc THEN ProviderName(config)
                   ELSE keyOwner
    /\ UNCHANGED <<configFile, fs, constructed>>
    /\ UNCHANGED guiVars

DoSetProvider == \E a \in ProviderArgs : Setter("set_provider", a, SetProvider(config, a))
DoSetModel == \E a \in ModelArgs : Setter("set_model", a, SetModel(config, a))
DoSetApiKey == \E a \in ApiKeyArgs : Setter("set_api_key", a, SetApiKey(config, a))
DoSetGoogleApiKey ==
    \E a \in GoogleKeyArgs : Setter("set_google_api_key", a, SetGoogleApiKey(config, a))
DoSetTemperature ==
    \E a \in TemperatureArgs : Setter("set_temperature", a, SetTemperature(config, a))
DoSetMaxTokens ==
    \E a \in MaxTokensArgs : Setter("set_max_tokens", a, SetMaxTokens(config, a))
DoSetTemplate == \E a \in TemplateArgs : Setter("set_template", a, SetTemplate(config, a))

\* save_config
DoSaveConfig ==
    \E io \in IoOutcomes :
        /\ CanCall
        /\ configFile' = SaveFile(configFile, config, io)
        /\ call' = [BaseCall("save_config") EXCEPT !.io = io, !.ret = SaveConfigReturn(io)]
        /\ ncalls' = ncalls + 1
        /\ UNCHANGED <<fs, constructed, config, keyOwner>>
        /\ UNCHANGED guiVars

\* a new MemoGenerator(config_path) replaces the generator
DoConstruct ==
    /\ ncalls < MaxCalls
    /\ \E c \in {Construct(configFile)} :
          /\ constructed' = c.constructed
          /\ config' = c.config
          /\ call' = c.call
          /\ keyOwner' = OwnerAtLoad(c.config)
    /\ ncalls' = ncalls + 1
    /\ UNCHANGED <<configFile, fs>>
    /\ UNCHANGED guiVars

\* the response recorded with a call: the one received, if a request was made
Received(g, resp) == IF g.reqs > 0 THEN resp ELSE NoResponse

\* the responses a generate_memo call can receive: none when it issues no
\* request
ResponseChoices(cfg, transcription) ==
    IF GenerateMemo(cfg, transcription, NoResponse).reqs > 0 THEN Responses ELSE {NoResponse}

\* the outcomes of the write of generate_memo_from_file, when it gets there
WriteChoices(cfg, files, input, resp) ==
    IF input \in DOMAIN files /\ WritesMemo(GenerateMemo(cfg, files[input], resp))
    THEN IoOutcomes ELSE {"none"}

\* generate_memo(transcription)
DoGenerateMemo ==
    \E resp \in ResponseChoices(config, Transcript) :
        \E g \in {GenerateMemo(config, Transcript, resp)} :
           /\ CanCall
           /\ call' = [BaseCall("generate_memo") EXCEPT
                         !.exc = g.exc, !.ret = g.ret, !.reqs = g.reqs, !.sent = g.sent,
                         !.prompt = g.prompt, !.resp = Received(g, resp)]
           /\ ncalls' = ncalls + 1
           /\ UNCHANGED <<configFile, fs, constructed, config, keyOwner>>
           /\ UNCHANGED guiVars

\* the record of a generate_memo_from_file call with outcome r
FromFileCall(r, input, output, resp) ==
    [BaseCall("generate_memo_from_file") EXCEPT
        !.ret = r.ret, !.reqs = r.g.reqs, !.sent = r.g.sent,
        !.prompt = r.g.prompt, !.resp = Received(r.g, resp),
        !.input = input, !.outarg = output, !.output = r.out, !.io = r.io,
        !.gen = IF ~r.called THEN "none"
                ELSE IF r.g.exc # NoExc THEN r.g.exc ELSE "returned",
        !.genret = r.g.ret]

\* generate_memo_from_file(input_file, output_file)
DoGenerateMemoFromFile ==
    \E input \in InputPaths, output \in OutputArgs :
    \E resp \in (IF input \in DOMAIN fs THEN ResponseChoices(config, fs[input])
                 ELSE {NoResponse}) :
    \E io \in WriteChoices(config, fs, input, resp) :
        \E r \in {GenerateMemoFromFile(config, fs, input, output, resp, io)} :
           /\ CanCall
           /\ fs' = r.files
           /\ call' = FromFileCall(r, input, output, resp)
           /\ ncalls' = ncalls + 1
           /\ UNCHANGED <<configFile, constructed, config, keyOwner>>
           /\ UNCHANGED guiVars

Next ==
    \/ DoSetProvider
    \/ DoSetModel
    \/ DoSetApiKey
    \/ DoSetGoogleApiKey
    \/ DoSetTemperature
    \/ DoSetMaxTokens
    \/ DoSetTemplate
    \/ DoSaveConfig
    \/ DoConstruct
    \/ DoGenerateMemo
    \/ DoGenerateMemoFromFile

Spec == Init /\ [][Next]_vars

\* -------------------------------------------------------------- the GUI
\* the configuration MemoGeneratorGUI._load_config falls back to
GuiDefaultConfig ==
    Dict([k \in {"llm", "templates", "providers"} |->
        CASE k = "llm" ->
                Dict([j \in {"provider", "openai_api_key", "anthropic_api_key",
                             "google_api_key", "model", "temperature", "max_tokens"} |->
                    CASE j = "provider" -> Str(<<"openai">>)
                      [] j = "model" -> Str(<<"gpt-4o-mini">>)
                      [] j = "temperature" -> PyFloat(DEFAULT_TEMPERATURE)
                      [] j = "max_tokens" -> PyInt(DEFAULT_MAX_TOKENS)
                      [] OTHER -> Str(<<>>)])
          [] k = "templates" -> Dict([j \in {"default"} |-> Str(DefaultTemplate)])
          [] OTHER ->
                Dict([j \in {"openai", "anthropic", "google"} |->
                    CASE j = "openai" -> List(<<Str(<<"gpt-3.5-turbo">>), Str(<<"gpt-4o-mini">>)>>)
                      [] j = "anthropic" -> List(<<Str(<<"claude-3-haiku-20240307">>)>>)
                      [] OTHER -> List(<<Str(<<"gemini-pro">>)>>)])])

\* MemoGeneratorGUI._load_config
GuiLoadConfig(file) ==
    LET e == LoadExc(file)
    IN IF e = NoExc THEN Res(NoExc, JsonLoads(file.bytes).val)
       ELSE IF LoadCaught(e) THEN Res(NoExc, GuiDefaultConfig)
       ELSE Res(e, None)

\* a configuration file whose catalog was extended with a provider that
\* has no adapter, and which selects that provider
OtherProviderConfig ==
    LET doc == ConfigDoc(LlmDoc("mistral",
                                [j \in {"openai_api_key", "anthropic_api_key", "google_api_key"} |->
                                    IF j = "google_api_key" THEN <<"g">> ELSE <<>>],
                                50, 1500), TRUE)
    IN Put(doc, "providers",
           Put(doc.v["providers"], "mistral", List(<<Str(<<"mistral-small">>)>>)))

\* the contents of config.json the GUI is started with
GuiInitialConfigFiles == { MissingFile, File(Dump(OtherProviderConfig)) }

\* the files on disk when the GUI starts: the transcripts, no memo yet
GuiFileSystem == [p \in ExistingInputs |-> Transcript]

\* the number of parameters of MemoGenerator.set_api_key besides self
SET_API_KEY_ARITY == 1

\* a call generator.set_api_key(*args)
CallSetApiKey(cfg, args) ==
    IF Len(args) # SET_API_KEY_ARITY THEN Res("TypeError", cfg) ELSE SetApiKey(cfg, args[1])

\* the configuration entry update_generator_settings takes the credential from
GuiCredentialKey(name) ==
    CASE name = "openai" -> "openai_api_key"
      [] name = "anthropic" -> "anthropic_api_key"
      [] name = "google" -> "google_api_key"

\* the last three setter calls of update_generator_settings
UpdateParameters(gcfg, cfg) ==
    LET t == Sub2(gcfg, "llm", "temperature")
        n == Sub2(gcfg, "llm", "max_tokens")
        tpl == Sub2(gcfg, "templates", "default")
    IN IF t.exc # NoExc THEN Res(t.exc, cfg)
       ELSE LET c1 == SetTemperature(cfg, t.val)
            IN IF c1.exc # NoExc THEN c1
               ELSE IF n.exc # NoExc THEN Res(n.exc, c1.val)
               ELSE LET c2 == SetMaxTokens(c1.val, n.val)
                    IN IF c2.exc # NoExc THEN c2
                       ELSE IF tpl.exc # NoExc THEN Res(tpl.exc, c2.val)
                       ELSE SetTemplate(c2.val, tpl.val)

\* update_generator_settings: val is the generator's configuration
\* afterwards, exc the exception that escapes
UpdateGeneratorSettings(gcfg, cfg) ==
    LET p == Sub2(gcfg, "llm", "provider")
        m == Sub2(gcfg, "llm", "model")
    IN IF p.exc # NoExc THEN Res(p.exc, cfg)
       ELSE LET c1 == SetProvider(cfg, p.val)
            IN IF c1.exc # NoExc THEN c1
               ELSE IF m.exc # NoExc THEN Res(m.exc, c1.val)
               ELSE LET c2 == SetModel(c1.val, m.val)
                        name == ProviderName(gcfg)
                    IN IF c2.exc # NoExc THEN c2
                       ELSE IF name \in {"openai", "anthropic", "google"}
                       THEN LET k == Sub2(gcfg, "llm", GuiCredentialKey(name))
                            IN IF k.exc # NoExc THEN Res(k.exc, c2.val)
                               ELSE LET c3 == CallSetApiKey(c2.val, <<k.val, p.val>>)
                                    IN IF c3.exc # NoExc THEN c3
                                       ELSE UpdateParameters(gcfg, c3.val)
                       ELSE UpdateParameters(gcfg, c2.val)

InList(x, list) == \E i \in 1..Len(list) : list[i] = x

\* self.config.get("providers", {}).get(provider, [])
CatalogModels(gcfg, name) ==
    IF /\ "providers" \in DOMAIN gcfg.v
       /\ gcfg.v["providers"].ty = "dict"
       /\ name \in DOMAIN gcfg.v["providers"].v
       /\ gcfg.v["providers"].v[name].ty = "list"
    THEN gcfg.v["providers"].v[name].v
    ELSE <<>>

\* the providers the read-only provider box offers
CatalogProviders(gcfg) ==
    IF "providers" \in DOMAIN gcfg.v /\ gcfg.v["providers"].ty = "dict"
    THEN DOMAIN gcfg.v["providers"].v
    ELSE {}

\* update_model_list: the model shown once the provider is selected
UpdateModelList(gcfg, name, model) ==
    LET models == CatalogModels(gcfg, name)
    IN IF models # <<>> /\ ~InList(model, models) THEN models[1] ELSE model

\* the values of the settings widgets when save_settings runs
Form(provider, googleKey, temperature, maxTokens, template) ==
    [provider |-> provider,
     openai |-> Str(<<>>), anthropic |-> Str(<<>>), google |-> Str(googleKey),
     temperature |-> PyFloat(temperature), maxTokens |-> PyInt(maxTokens),
     template |-> template]
Forms ==
    { Form("google", <<"g">>, 4, 500, <<"Summarize:", Placeholder>>),
      Form("mistral", <<>>, 3, 1500, <<>>) }

\* the assignments of save_settings to self.config
ApplyForm(gcfg, f) ==
    LET llm == [j \in DOMAIN gcfg.v["llm"].v \cup
                      {"provider", "model", "openai_api_key", "anthropic_api_key",
                       "google_api_key", "temperature", "max_tokens"} |->
                  CASE j = "provider" -> Str(<<f.provider>>)
                    [] j = "model" -> UpdateModelList(gcfg, f.provider, gcfg.v["llm"].v["model"])
                    [] j = "openai_api_key" -> f.openai
                    [] j = "anthropic_api_key" -> f.anthropic
                    [] j = "google_api_key" -> f.google
                    [] j = "temperature" -> f.temperature
                    [] j = "max_tokens" -> f.maxTokens
                    [] OTHER -> gcfg.v["llm"].v[j]]
        c1 == Put(gcfg, "llm", Dict(llm))
    IN IF f.template # <<>>
       THEN Put(c1, "templates", Put(c1.v["templates"], "default", Str(f.template)))
       ELSE c1

\* MemoGeneratorGUI.save_config returns True or False
GuiSaveConfigReturn(io) == io = "ok"

\* os.path.basename
Basename(p) == SubSeq(p, LastIndex(p, "/", Len(p)) + 1, Len(p))

\* the output file _generate_all_in_thread chooses
WorkerOutputPath(dir, input) ==
    IF dir # NoPath THEN dir \o <<"/">> \o SplitExtRoot(Basename(input)) \o MemoSuffix
    ELSE SplitExtRoot(input) \o MemoSuffix

\* the files the file dialog can return, and the output directories entered
GuiSelections == { <<<<"a", ".", "txt">>>>, <<<<"gone", ".", "txt">>, <<"a", ".", "txt">>>> }
OutputDirs == {NoPath, <<"memos">>}

\* the loop of add_files
RECURSIVE AddPaths(_, _)
AddPaths(list, sel) ==
    IF sel = <<>> THEN list
    ELSE AddPaths(IF InList(Head(sel), list) THEN list ELSE Append(list, Head(sel)), Tail(sel))

\* del list[i]
DeleteAt(list, i) == SubSeq(list, 1, i - 1) \o SubSeq(list, i + 1, Len(list))

\* the loop of remove_files: the selected indices (1-based here), largest first
RECURSIVE RemoveSelected(_, _)
RemoveSelected(list, selected) ==
    IF selected = {} THEN list
    ELSE LET i == CHOOSE i \in selected : \A j \in selected : j <= i
         IN RemoveSelected(DeleteAt(list, i), selected \ {i})

Result(input, output, success) == [input |-> input, output |-> output, success |-> success]
ProgressCallback == [kind |-> "progress", results |-> <<>>]
FinalCallback(results) == [kind |-> "final", results |-> results]

ButtonAfterResultsOnSuccess(results) ==
    IF \E i \in 1..Len(results) : results[i].success THEN "normal" ELSE "disabled"

\* the state _show_final_results puts the generate button in
ButtonAfterResults(results) == "normal"

GuiCall(op, exc, outcome) == [op |-> op, exc |-> exc, outcome |-> outcome]

\* MemoGeneratorGUI.__init__ on a configuration file the GUI starts with
GuiInit ==
    /\ configFile \in GuiInitialConfigFiles
    /\ fs = GuiFileSystem
    /\ \E c \in {Construct(configFile)} :
          /\ constructed = c.constructed
          /\ config = c.config
          /\ call = c.call
          /\ keyOwner = OwnerAtLoad(c.config)
    /\ ncalls = 0
    /\ guiConfig = GuiLoadConfig(configFile).val
    /\ inputFiles = <<>>
    /\ button = "normal"
    /\ worker = NoWorker
    /\ afterQueue = <<>>
    /\ guiCall = NoGuiCall
    /\ guiCalls = 0

\* the outcomes of writing config.json from the window
GuiSaveOutcomes == {"ok", "open_fails"}

CanCallGui == guiCalls < MaxGuiCalls

\* add_files
AddFiles ==
    \E sel \in GuiSelections :
        /\ CanCallGui
        /\ inputFiles' = AddPaths(inputFiles, sel)
        /\ guiCalls' = guiCalls + 1
        /\ UNCHANGED <<coreVars, guiConfig, button, worker, afterQueue, guiCall>>

\* remove_files
RemoveFiles ==
    \E selected \in (SUBSET (1..Len(inputFiles))) \ {{}} :
        /\ CanCallGui
        /\ inputFiles' = RemoveSelected(inputFiles, selected)
        /\ guiCalls' = guiCalls + 1
        /\ UNCHANGED <<coreVars, guiConfig, button, worker, afterQueue, guiCall>>

\* clear_files
ClearFiles ==
    /\ CanCallGui
    /\ inputFiles' = <<>>
    /\ guiCalls' = guiCalls + 1
    /\ UNCHANGED <<coreVars, guiConfig, button, worker, afterQueue, guiCall>>

\* save_settings
SaveSettings ==
    \E f \in Forms, io \in GuiSaveOutcomes :
        /\ CanCallGui
        /\ f.provider \in CatalogProviders(guiConfig)
        /\ \E g \in {ApplyForm(guiConfig, f)} :
           \E file \in {SaveFile(configFile, g, io)} :
           \E c \in {Construct(file)} :
           /\ guiCalls' = guiCalls + 1
           /\ guiConfig' = g
           /\ configFile' = file
           /\ IF GuiSaveConfigReturn(io)
              THEN /\ constructed' = c.constructed
                   /\ config' = c.config
                   /\ call' = c.call
                   /\ keyOwner' = OwnerAtLoad(c.config)
              ELSE UNCHANGED <<constructed, config, call, keyOwner>>
           /\ guiCall' = GuiCall("save_settings", NoExc, IF GuiSaveConfigReturn(io) THEN "saved" ELSE "failed")
           /\ UNCHANGED <<fs, ncalls, inputFiles, button, worker, afterQueue>>

\* generate_memos: the handler of the generate button
GenerateMemos ==
    \E dir \in OutputDirs :
    \E mk \in (IF dir = NoPath THEN {"isdir"} ELSE {"isdir", "created", "fails"}) :
        /\ CanCallGui
        /\ button = "normal"
        /\ constructed
        /\ \E u \in {UpdateGeneratorSettings(guiConfig, config)} :
           /\ guiCalls' = guiCalls + 1
           /\ IF inputFiles = <<>>
              THEN /\ guiCall' = GuiCall("generate_memos", NoExc, "no_files")
                   /\ UNCHANGED <<config, button, worker>>
              ELSE IF mk = "fails"
              THEN /\ guiCall' = GuiCall("generate_memos", NoExc, "no_directory")
                   /\ UNCHANGED <<config, button, worker>>
              ELSE IF u.exc # NoExc
              THEN /\ guiCall' = GuiCall("generate_memos", u.exc, "raised")
                   /\ config' = u.val
                   /\ UNCHANGED <<button, worker>>
              ELSE /\ guiCall' = GuiCall("generate_memos", NoExc, "started")
                   /\ config' = u.val
                   /\ button' = "disabled"
                   /\ worker' = [running |-> TRUE, index |-> 0, results |-> <<>>,
                                 outputDir |-> dir, snapshot |-> inputFiles]
           /\ UNCHANGED <<configFile, fs, constructed, call, ncalls, keyOwner,
                          guiConfig, inputFiles, afterQueue>>

\* one iteration of the loop of _generate_all_in_thread
WorkerStep ==
    /\ worker.running
    /\ worker.index < Len(inputFiles)
    /\ LET input == inputFiles[worker.index + 1]
           output == WorkerOutputPath(worker.outputDir, input)
       IN \E resp \in (IF input \in DOMAIN fs THEN ResponseChoices(config, fs[input])
                       ELSE {NoResponse}) :
          \E io \in WriteChoices(config, fs, input, resp) :
            \E r \in {GenerateMemoFromFile(config, fs, input, output, resp, io)} :
               /\ fs' = r.files
               /\ call' = FromFileCall(r, input, output, resp)
               /\ worker' = [worker EXCEPT
                               !.index = @ + 1,
                               !.results = Append(@, Result(input, output, r.ret.ty # "none"))]
               /\ afterQueue' = Append(afterQueue, ProgressCallback)
    /\ UNCHANGED <<configFile, constructed, config, ncalls, keyOwner,
                   guiConfig, inputFiles, button, guiCall, guiCalls>>

\* the end of _generate_all_in_thread: the list iterator is exhausted
WorkerFinish ==
    /\ worker.running
    /\ worker.index >= Len(inputFiles)
    /\ worker' = [worker EXCEPT !.running = FALSE]
    /\ afterQueue' = Append(afterQueue, FinalCallback(worker.results))
    /\ UNCHANGED <<coreVars, guiConfig, inputFiles, button, guiCall, guiCalls>>

\* the main loop runs the next callback queued with root.after:
\* _update_progress or _show_final_results
RunAfter ==
    /\ afterQueue # <<>>
    /\ afterQueue' = Tail(afterQueue)
    /\ IF Head(afterQueue).kind = "final"
       THEN /\ button' = ButtonAfterResults(Head(afterQueue).results)
            /\ guiCall' = GuiCall("_show_final_results", NoExc, "none")
       ELSE UNCHANGED <<button, guiCall>>
    /\ UNCHANGED <<coreVars, guiConfig, inputFiles, worker, guiCalls>>

GuiNext ==
    \/ AddFiles
    \/ RemoveFiles
    \/ ClearFiles
    \/ SaveSettings
    \/ GenerateMemos
    \/ WorkerStep
    \/ WorkerFinish
    \/ RunAfter

GuiSpec == GuiInit /\ [][GuiNext]_vars

\* the worker thread runs whenever it can, and so does the Tk main loop
GuiFairSpec ==
    /\ GuiSpec
    /\ WF_vars(WorkerStep)
    /\ WF_vars(WorkerFinish)
    /\ WF_vars(RunAfter)

\* ----------------------------------------------------------------- claims
IsGenerate(c) == c.op \in {"generate_memo", "generate_memo_from_file"}
HasLlm(cfg) == cfg.ty = "dict" /\ Has(cfg, "llm") /\ cfg.v["llm"].ty = "dict"
Llm(cfg) == cfg.v["llm"]
SupportedNames == {"openai", "anthropic", "google"}
ActiveProviderIs(cfg, name) ==
    HasLlm(cfg) /\ Has(Llm(cfg), "provider") /\ IsName(Llm(cfg).v["provider"], name)
\* the configuration entry each adapter takes its credential from
CredentialKey(name) == IF name = "google" THEN "google_api_key" ELSE "api_key"
EmptyOrAbsent(d, k) == ~Has(d, k) \/ (d.v[k].ty = "str" /\ d.v[k].v = <<>>)
ReturnedFailure(c) == c.exc = NoExc /\ c.ret.ty = "none"

\* C1: for every provider, a generate_memo call made while the active
\* provider's credential is empty or absent returns a failure (None) and
\* issues no HTTP request.
C1_EmptyCredentialFailsWithoutRequest ==
    \A name \in SupportedNames :
        (/\ call.op = "generate_memo"
         /\ ActiveProviderIs(config, name)
         /\ config.ty = "dict" /\ Sub2(config, "templates", "default").exc = NoExc
         /\ EmptyOrAbsent(Llm(config), CredentialKey(name)))
        => (ReturnedFailure(call) /\ call.reqs = 0)

AdapterFailed(c) == c.gen \notin {"none", "returned"} \/ (c.gen = "returned" /\ c.genret.ty = "none")

\* C2: whenever the adapter called by generate_memo_from_file fails (returns
\* None or raises), generate_memo_from_file returns None and no file is
\* created or overwritten.
C2_AdapterFailureWritesNothing ==
    [][(call'.op = "generate_memo_from_file" /\ AdapterFailed(call'))
        => (ReturnedFailure(call') /\ fs' = fs)]_vars

C2_Witness ==
    /\ call.op = "generate_memo_from_file"
    /\ call.resp.status = 401
    /\ ReturnedFailure(call)
    /\ call.output \in DOMAIN fs
    /\ fs[call.output] = OldMemo

\* the input paths without their extension, followed by "_memo.txt"
ExpectedMemoPath(input) ==
    CASE input = <<"a", ".", "txt">> -> <<"a", "_memo", ".", "txt">>
      [] input = <<"d", ".", "v", "/", ".", "b">> -> <<"d", ".", "v", "/", ".", "b", "_memo", ".", "txt">>
      [] input = <<"gone", ".", "txt">> -> <<"gone", "_memo", ".", "txt">>
ExpectedOutput(c) == IF c.outarg = NoPath THEN ExpectedMemoPath(c.input) ELSE c.outarg

\* C3: generate_memo_from_file returns the generated text only if the
\* output path (the given one, or the input path without its extension plus
\* "_memo.txt") then holds exactly that text; when the read and the
\* generation succeed and the write fails, it returns None.
C3_SuccessMeansWritten ==
    call.op = "generate_memo_from_file" =>
        /\ call.exc = NoExc
        /\ call.ret.ty \in {"none", "str"}
        /\ call.ret.ty = "str" =>
              /\ call.gen = "returned" /\ call.genret = call.ret
              /\ ExpectedOutput(call) \in DOMAIN fs
              /\ fs[ExpectedOutput(call)] = call.ret.v
        /\ call.io \in {"open_fails", "write_fails"} => call.ret.ty = "none"

C3_Witness ==
    /\ call.op = "generate_memo_from_file"
    /\ call.ret.ty = "str"
    /\ call.outarg = NoPath
    /\ call.input = <<"d", ".", "v", "/", ".", "b">>
    /\ fs[<<"d", ".", "v", "/", ".", "b", "_memo", ".", "txt">>] = <<"Meeting summary.">>

\* C4: generate_memo and generate_memo_from_file raise no exception, for
\* every configuration load can return and every adapter outcome.
C4_GenerateNeverRaises == IsGenerate(call) => call.exc = NoExc

\* C5: a save_config call whose write failed does not end like a successful
\* one (which returns None without raising).
C5_FailedSaveIsReported ==
    (call.op = "save_config" /\ call.io # "ok") => ~ReturnedFailure(call)

WellFormedJson(file) == Decodable(file.bytes) /\ JsonLoads(file.bytes).ok
IsBuiltInDefault(cfg) ==
    /\ ActiveProviderIs(cfg, "openai")
    /\ \A name \in SupportedNames : EmptyOrAbsent(Llm(cfg), CredentialKey(name))
    /\ Sub2(cfg, "templates", "default").exc = NoExc
    /\ cfg.v["templates"].v["default"].v = DefaultTemplate
    /\ ~Has(cfg, "providers")

\* C6: constructing the generator from a configuration file that is missing
\* or whose content is not well-formed JSON raises nothing and yields the
\* built-in default configuration.
C6_BadFileLoadsDefault ==
    (call.op = "__init__" /\ (~configFile.exists \/ ~WellFormedJson(configFile)))
        => (call.exc = NoExc /\ constructed /\ IsBuiltInDefault(config))

IsNumber(x) == x.ty \in {"int", "float"}
InUnitInterval(x) == IsNumber(x) /\ 0 <= Tenths(x) /\ Tenths(x) <= 10

\* C7: set_temperature(x) on a configuration with an llm section raises
\* nothing and stores a value in [0.0, 1.0]: 0.0 for x < 0, 1.0 for x > 1
\* and x itself for every other number x.
C7_TemperatureClamped ==
    (call.op = "set_temperature" /\ HasLlm(config)) =>
        /\ call.exc = NoExc
        /\ Has(Llm(config), "temperature")
        /\ LET t == Llm(config).v["temperature"]
               x == call.arg
           IN /\ InUnitInterval(t)
              /\ IsNumber(x) =>
                    Tenths(t) = (IF Tenths(x) < 0 THEN 0
                                 ELSE IF Tenths(x) > 10 THEN 10 ELSE Tenths(x))

C7_Witness ==
    /\ call.op = "set_temperature"
    /\ call.arg = PyFloat(17)
    /\ call.exc = NoExc
    /\ Llm(config).v["temperature"] = PyFloat(10)

\* C8: set_max_tokens(n) on a configuration with an llm section stores
\* max(1, n): 1 for n <= 0 and n for n >= 1.
C8_MaxTokensClamped ==
    (call.op = "set_max_tokens" /\ HasLlm(config)) =>
        /\ call.exc = NoExc
        /\ Has(Llm(config), "max_tokens")
        /\ Llm(config).v["max_tokens"] = PyInt(IF call.arg.v <= 0 THEN 1 ELSE call.arg.v)

C8_Witness ==
    /\ call.op = "set_max_tokens"
    /\ call.arg = PyInt(-10)
    /\ call.exc = NoExc
    /\ Llm(config).v["max_tokens"] = PyInt(1)

\* C9: in every configuration a generate call observes, temperature lies in
\* [0, 1] and max_tokens is at least 1.
C9_GenerateSeesValidParameters ==
    (IsGenerate(call) /\ HasLlm(config)) =>
        /\ Has(Llm(config), "temperature") => InUnitInterval(Llm(config).v["temperature"])
        /\ Has(Llm(config), "max_tokens") =>
              (IsNumber(Llm(config).v["max_tokens"]) /\ Tenths(Llm(config).v["max_tokens"]) >= 10)

\* C10: after a successful save_config, loading the configuration file
\* yields a configuration equal to the one that was saved.
C10_SaveLoadRoundTrip ==
    (call.op = "save_config" /\ call.io = "ok") =>
        /\ LoadExc(configFile) = NoExc
        /\ LoadConfig(configFile).val = config

C10_Witness ==
    /\ call.op = "save_config"
    /\ call.io = "ok"
    /\ HasLlm(config)
    /\ Has(Llm(config), "api_key")
    /\ \E i \in 1..Len(Llm(config).v["api_key"].v) : Llm(config).v["api_key"].v[i] \in {"\"", "\\"}
    /\ LoadConfig(configFile).val = config

\* C11: the credential a generate call sends is the one configured for the
\* active provider: a request to OpenAI or Anthropic carries an llm.api_key
\* that was configured while that provider was the active one, a request to
\* Google carries llm.google_api_key.
C11_SendsActiveProvidersCredential ==
    (IsGenerate(call) /\ call.reqs > 0) =>
        /\ ProviderName(config) \in SupportedNames
        /\ call.sent = Llm(config).v[CredentialKey(ProviderName(config))]
        /\ ProviderName(config) # "google" => keyOwner = ProviderName(config)

\* the text fields the active provider's adapter reads are missing from the body
LacksText(name, resp) ==
    IF name = "google"
    THEN ~resp.path \/ \A i \in 1..Len(resp.parts) : ~resp.parts[i].has
    ELSE ~resp.path \/ Len(resp.parts) = 0 \/ ~resp.parts[1].has

\* C12: for every adapter, a 200 response whose body lacks the expected
\* text field(s) makes generate_memo return a failure (None), never a text.
C12_MissingTextIsFailure ==
    (/\ call.op = "generate_memo"
     /\ call.reqs > 0
     /\ call.resp.kind = "http" /\ call.resp.status = 200
     /\ LacksText(ProviderName(config), call.resp))
        => ReturnedFailure(call)

\* C13: every generate call issues at most one HTTP request, whatever the
\* outcome of that request.
C13_AtMostOneRequest == IsGenerate(call) => call.reqs <= 1

C13_Witness ==
    /\ IsGenerate(call)
    /\ call.reqs = 1
    /\ call.resp.status = 401
    /\ ReturnedFailure(call)

\* the generator holds the values of the GUI configuration, including the
\* credential the adapter of the active provider reads
GeneratorMatchesGui ==
    /\ HasLlm(config)
    /\ \A k \in {"provider", "model", "temperature", "max_tokens"} :
            /\ k \in DOMAIN Llm(config).v
            /\ Llm(config).v[k] = Llm(guiConfig).v[k]
    /\ Sub2(config, "templates", "default") = Sub2(guiConfig, "templates", "default")
    /\ LET name == ProviderName(guiConfig)
       IN /\ CredentialKey(name) \in DOMAIN Llm(config).v
          /\ Llm(config).v[CredentialKey(name)] = Llm(guiConfig).v[GuiCredentialKey(name)]

\* C14: whenever generate_memos has disabled the generate button, the button
\* is eventually re-enabled by _show_final_results, whatever failure occurs
\* while the files are processed
C14_ButtonReEnabled ==
    (button = "disabled") ~> (button = "normal" /\ guiCall.op = "_show_final_results")

C14_Witness ==
    /\ guiCall.op = "_show_final_results"
    /\ button = "normal"
    /\ \E i \in 1..Len(worker.results) : ~worker.results[i].success

\* C15: while a batch worker is in flight no GUI action changes the generator
\* or the configuration its calls read
C15_ConfigStableDuringBatch ==
    [][worker.running => (constructed' = constructed /\ config' = config)]_vars

\* C16: with a non-empty file list and a supported provider,
\* update_generator_settings completes without error, leaves the generator
\* equal to the GUI configuration, and the batch worker is started
C16_UpdateCompletesAndStartsWorker ==
    (/\ guiCall.op = "generate_memos"
     /\ guiCall.outcome \in {"raised", "started"}
     /\ ProviderName(guiConfig) \in SupportedNames) =>
        /\ guiCall.exc = NoExc
        /\ guiCall.outcome = "started"
        /\ GeneratorMatchesGui

\* C17: the final result list of a batch holds exactly one entry for each
\* file that was in the input list when generate_memos was pressed, whatever
\* add_files, remove_files and clear_files did while the worker ran
C17_EachSnapshotFileOnce ==
    guiCall.op = "_show_final_results" =>
        /\ Len(worker.results) = Len(worker.snapshot)
        /\ \A i \in 1..Len(worker.snapshot) :
              Cardinality({j \in 1..Len(worker.results) :
                              worker.results[j].input = worker.snapshot[i]}) = 1

====
